---------------------------- MODULE Spec2Model ----------------------------
(***************************************************************************)
(* Model of the sale transaction of src/src/app.py (create_sale) and of    *)
(* the other endpoints of the API (products, customers, sales, reports,    *)
(* backup), against a store that keeps four tables: products, customers,   *)
(* sales and sale_items.                                                   *)
(*                                                                         *)
(* Every store call of a handler is one step, so that handlers interleave  *)
(* exactly at the round trips to the store.  A store call either succeeds  *)
(* ("ok"), is answered with no row ("empty": response.data is empty and    *)
(* nothing was written) or raises ("raise": the except clause of the       *)
(* handler runs).  Tables are plain: a delete removes the rows its filter  *)
(* selects and nothing else (no cascade), which is what lines 347-348 of   *)
(* app.py rely on when they delete the sale and then its items.            *)
(* An endpoint other than create_sale is handled in one step: its store    *)
(* calls are not interleaved with those of another handler.                *)
(*                                                                         *)
(* A JSON object is a function whose domain is the set of keys present.    *)
(***************************************************************************)
EXTENDS Integers, Sequences, FiniteSets, TLC

\* ------------------------------------------------------------- bounds
MaxItems == 2       \* items of one sale request (sequential specification)
MaxConcItems == 1   \* items of one sale request (concurrent specification)
MaxQty == 2         \* largest quantity requested
MaxStock == 2       \* stock of product p1 in the initial store
MaxNewRows == 1     \* products, and customers, created through the API
MaxRows == 3        \* sale items the report query returns (short answers)

\* ------------------------------------------------------------- values
DefaultLowStockAlert == 5     \* data.get('low_stock_alert', 5)
Req == {1, 2}                 \* request handlers that may be in flight
Users == {"u1", "u2"}
NULL == "NULL"                \* SQL NULL / Python None for an id
Outcomes == {"ok", "empty", "raise"}     \* of an insert or update
ReadOutcomes == {"ok", "raise"}          \* of a select
DeleteOutcomes == {"ok", "raise"}        \* of a delete (its data is ignored)

VARIABLES
    products,          \* table: id -> row [id, name, category, user_id, stock,
                       \*                   low_stock_alert, price]
    customers,         \* table: id -> row [id, name, email, phone, user_id]
    sales,             \* table: set of rows [id, total, customer_id, user_id]
    sale_items,        \* table: set of rows [id, sale_id, product_id, quantity, unit_price]
    sale_seq,          \* ids handed out by the store for sales
    item_seq,          \* ids handed out by the store for sale_items
    product_seq,       \* number of ids handed out by the store for new products
    customer_seq,      \* number of ids handed out by the store for new customers
    report_data,       \* what the store answers to the query of top_products
    pc,                \* handler -> position in create_sale
    auth,              \* handler -> user: what check_auth() returned (a user id or NULL)
    headers,           \* handler -> the Authorization header of its request
    data,              \* handler -> request body
    reads,             \* handler -> number of store selects it issued
    idx,               \* handler -> position of the running for loop
    total,             \* handler -> local total
    items_to_process,  \* handler -> local list built by validation
    sale_id,           \* handler -> id of the inserted header (0: none yet)
    result,            \* handler -> response [status, error, sale]
    log,               \* handler -> the store writes it issued, with their outcome
    before,            \* handler -> the store when the handler was entered
    resp               \* last response of an endpoint handled in one step

store == <<products, customers, sales, sale_items, sale_seq, item_seq,
           product_seq, customer_seq, report_data>>
\* what create_sale only reads or never touches
aside == <<customers, product_seq, customer_seq, report_data>>
locals == <<idx, total, items_to_process, sale_id>>
request == <<headers, data>>
vars == <<products, customers, sales, sale_items, sale_seq, item_seq,
          product_seq, customer_seq, report_data, pc, auth,
          headers, data, reads, idx, total, items_to_process, sale_id, result,
          log, before, resp>>

\* ------------------------------------------------------------ helpers
\* dict.get(k, default)
Get(d, k, default) == IF k \in DOMAIN d THEN d[k] ELSE default

\* not d.get(k), for a number, an id (a string) and a list
FalsyNum(d, k) == k \notin DOMAIN d \/ d[k] = 0
FalsyStr(d, k) == k \notin DOMAIN d \/ d[k] = ""
FalsySeq(d, k) == k \notin DOMAIN d \/ d[k] = << >>

ItemsUpTo(S, n) == UNION {[1..k -> S] : k \in 0..n}

Snapshot == [products |-> products, sales |-> sales, sale_items |-> sale_items]

Respond(r, st, err, sale) ==
    /\ pc' = [pc EXCEPT ![r] = "done"]
    /\ result' = [result EXCEPT ![r] = [status |-> st, error |-> err, sale |-> sale]]

\* the write log: the call, the item it is for (0: the sale itself), its outcome
Logged(r, op, i, out) ==
    log' = [log EXCEPT ![r] = Append(@, [op |-> op, i |-> i, out |-> out])]

\* ------------------------------------------------------------ check_auth
\* The Authorization header is [present, text]: request.headers.get() finds
\* none (present = FALSE) or a string, written as the sequence of its first
\* seven characters and the rest (<< >> is the empty string).
Tokens == {"tok-u1", "tok-u2", "expired", "outage"}
NoHeader == [present |-> FALSE, text |-> << >>]
Header(scheme, token) == [present |-> TRUE, text |-> <<scheme, token>>]
Headers ==
    {NoHeader, [present |-> TRUE, text |-> << >>], Header("Basic ", "tok-u1")}
    \cup {Header("Bearer ", t) : t \in Tokens}
GoodHeaders == {Header("Bearer ", "tok-u1"), Header("Bearer ", "tok-u2")}

\* supabase.auth.get_user(token): the identity service knows the tokens of u1
\* and u2, answers without a user for any other token, and raises when it is
\* out of reach
get_user(token) ==
    CASE token = "tok-u1" -> [raised |-> FALSE, user |-> "u1"]
      [] token = "tok-u2" -> [raised |-> FALSE, user |-> "u2"]
      [] token = "outage" -> [raised |-> TRUE, user |-> NULL]
      [] OTHER -> [raised |-> FALSE, user |-> NULL]

\* not auth_header or not auth_header.startswith('Bearer ')
no_bearer(auth_header) ==
    \/ ~auth_header.present
    \/ auth_header.text = << >>
    \/ auth_header.text[1] # "Bearer "

\* (mutant) a failure of the identity service lets the request in as u1
check_auth_fail_open(auth_header) ==
    IF no_bearer(auth_header) THEN NULL
    ELSE LET user == get_user(auth_header.text[2]) IN
         IF user.raised THEN "u1" ELSE user.user

\* check_auth(): the user id, or NULL when the header is missing or not a
\* bearer token, when the service returns no user and when it raises
check_auth(auth_header) ==
    IF no_bearer(auth_header) THEN NULL
    ELSE LET user == get_user(auth_header.text[2]) IN
         IF user.raised THEN NULL ELSE user.user

\* ------------------------------------------------- create_sale: pieces
\* supabase.table('products').select('id, name, stock, price')
\*     .eq('id', pid).eq('user_id', uid)
select_product(pid, uid) ==
    {[id |-> products[p].id, name |-> products[p].name,
      stock |-> products[p].stock, price |-> products[p].price] :
        p \in {q \in DOMAIN products : q = pid /\ products[q].user_id = uid}}

\* if not item.get('product_id') or not item.get('quantity')
item_incomplete(item) == FalsyStr(item, "product_id") \/ FalsyNum(item, "quantity")

\* (mutant) the stock check left out
insufficient_stock_never(product, item) == FALSE

\* if product['stock'] < item['quantity']
insufficient_stock(product, item) == product.stock < item.quantity

\* item_price = item.get('unit_price', product['price'])
item_price(item, product) == Get(item, "unit_price", product.price)

\* (mutant) the total of the request body is persisted when there is one
sale_data_client_total(r) ==
    [total |-> Get(data[r], "total", total[r]),
     customer_id |-> IF FalsyStr(data[r], "customer_id") THEN NULL ELSE data[r].customer_id,
     user_id |-> auth[r]]

\* sale_data = {'total': total, 'customer_id': data.get('customer_id') or None,
\*              'user_id': user.id}
sale_data(r) ==
    [total |-> total[r],
     customer_id |-> IF FalsyStr(data[r], "customer_id") THEN NULL ELSE data[r].customer_id,
     user_id |-> auth[r]]

\* (mutant) the row keeps the catalog price, not the effective unit price
sale_item_data_catalog_price(r, item_info) ==
    [sale_id |-> sale_id[r],
     product_id |-> item_info.item_data.product_id,
     quantity |-> item_info.item_data.quantity,
     unit_price |-> item_info.product.price]

\* sale_item_data = {'sale_id': ..., 'product_id': ..., 'quantity': ..., 'unit_price': ...}
sale_item_data(r, item_info) ==
    [sale_id |-> sale_id[r],
     product_id |-> item_info.item_data.product_id,
     quantity |-> item_info.item_data.quantity,
     unit_price |-> item_info.unit_price]

\* (mutant) the quantity is taken off the stock the store holds now, not off
\* the stock that was checked
new_stock_from_current(product, item_data) ==
    products[product.id].stock - item_data.quantity

\* new_stock = product['stock'] - item_data['quantity']
new_stock(product, item_data) == product.stock - item_data.quantity

\* (mutant) the delete of the header has no .eq('id', sale_id) filter
delete_sale_rows_unfiltered(r) == sales

\* the rows a compensating delete removes
delete_sale_rows(r) == {s \in sales : s.id = sale_id[r]}
delete_item_rows(r) == {it \in sale_items : it.sale_id = sale_id[r]}

\* ------------------------------------------------- create_sale: steps
\* check_auth(), request.get_json() and the check that items is not empty
Enter(r) ==
    /\ pc[r] = "start"
    /\ before' = [before EXCEPT ![r] = Snapshot]
    /\ LET user == check_auth(headers[r]) IN
       /\ auth' = [auth EXCEPT ![r] = user]
       /\ IF user = NULL
          THEN Respond(r, 401, "No autorizado", {})
          ELSE IF FalsySeq(data[r], "items")
               THEN Respond(r, 400, "La venta debe tener al menos un item", {})
               ELSE /\ pc' = [pc EXCEPT ![r] = "validate"]
                    /\ UNCHANGED result
    /\ idx' = [idx EXCEPT ![r] = 1]
    /\ UNCHANGED <<store, request, reads, total, items_to_process, sale_id, log, resp>>

\* one turn of "for item in data['items']": the field check, the read of the
\* product, the stock check, the total and items_to_process
Validate(r) ==
    /\ pc[r] = "validate"
    /\ LET item == data[r].items[idx[r]] IN
       IF item_incomplete(item)
       THEN /\ Respond(r, 400, "Cada item debe tener product_id y quantity", {})
            /\ UNCHANGED <<locals, reads>>
       ELSE \E out \in ReadOutcomes :
            /\ reads' = [reads EXCEPT ![r] = @ + 1]
            /\ IF out = "raise"
               THEN /\ Respond(r, 500, "Error interno del servidor", {})
                    /\ UNCHANGED locals
               ELSE LET rows == select_product(item.product_id, auth[r]) IN
                    IF rows = {}
                    THEN /\ Respond(r, 404, "Producto no encontrado", {})
                         /\ UNCHANGED locals
                    ELSE LET product == CHOOSE p \in rows : TRUE IN
                         IF insufficient_stock(product, item)
                         THEN /\ Respond(r, 400, "Stock insuficiente", {})
                              /\ UNCHANGED locals
                         ELSE /\ total' = [total EXCEPT ![r] =
                                     @ + item_price(item, product) * item.quantity]
                              /\ items_to_process' = [items_to_process EXCEPT ![r] =
                                     Append(@, [product |-> product, item_data |-> item,
                                                unit_price |-> item_price(item, product)])]
                              /\ IF idx[r] = Len(data[r].items)
                                 THEN /\ pc' = [pc EXCEPT ![r] = "insert_sale"]
                                      /\ idx' = idx
                                 ELSE /\ pc' = pc
                                      /\ idx' = [idx EXCEPT ![r] = @ + 1]
                              /\ UNCHANGED <<result, sale_id>>
    /\ UNCHANGED <<store, auth, request, log, before, resp>>

\* (mutant) the answer of the header insert is not looked at: the items are
\* inserted also when the store returned no row
InsertSale_unchecked(r) ==
    /\ pc[r] = "insert_sale"
    /\ \E out \in {"ok", "empty"} :
       /\ Logged(r, "insert_sale", 0, out)
       /\ LET row == [id |-> sale_seq + 1] @@ sale_data(r) IN
          /\ sales' = IF out = "ok" THEN sales \cup {row} ELSE sales
          /\ sale_seq' = sale_seq + 1
          /\ sale_id' = [sale_id EXCEPT ![r] = row.id]
          /\ result' = [result EXCEPT ![r].sale = {row}]
          /\ idx' = [idx EXCEPT ![r] = 1]
          /\ pc' = [pc EXCEPT ![r] = "insert_item"]
    /\ UNCHANGED <<products, aside, sale_items, item_seq, auth, request, reads, total,
                   items_to_process, before, resp>>

\* supabase.table('sales').insert(sale_data).execute()
InsertSale(r) ==
    /\ pc[r] = "insert_sale"
    /\ \E out \in Outcomes :
       /\ Logged(r, "insert_sale", 0, out)
       /\ CASE out = "ok" ->
                 LET row == [id |-> sale_seq + 1] @@ sale_data(r) IN
                 /\ sales' = sales \cup {row}
                 /\ sale_seq' = sale_seq + 1
                 /\ sale_id' = [sale_id EXCEPT ![r] = row.id]
                 /\ result' = [result EXCEPT ![r].sale = {row}]
                 /\ idx' = [idx EXCEPT ![r] = 1]
                 /\ pc' = [pc EXCEPT ![r] = "insert_item"]
            [] out = "empty" ->
                 /\ Respond(r, 400, "Error creando la venta en la base de datos", {})
                 /\ UNCHANGED <<sales, sale_seq, sale_id, idx>>
            [] out = "raise" ->
                 /\ Respond(r, 500, "Error interno del servidor", {})
                 /\ UNCHANGED <<sales, sale_seq, sale_id, idx>>
    /\ UNCHANGED <<products, aside, sale_items, item_seq, auth, request, reads, total,
                   items_to_process, before, resp>>

\* supabase.table('sale_items').insert(sale_item_data).execute()
InsertItem(r) ==
    /\ pc[r] = "insert_item"
    /\ \E out \in Outcomes :
       /\ Logged(r, "insert_item", idx[r], out)
       /\ CASE out = "ok" ->
                 /\ sale_items' = sale_items \cup
                        {[id |-> item_seq + 1] @@ sale_item_data(r, items_to_process[r][idx[r]])}
                 /\ item_seq' = item_seq + 1
                 /\ pc' = [pc EXCEPT ![r] = "update_stock"]
                 /\ UNCHANGED result
            [] out = "empty" ->
                 /\ pc' = [pc EXCEPT ![r] = "revert_item"]
                 /\ UNCHANGED <<sale_items, item_seq, result>>
            [] out = "raise" ->
                 /\ Respond(r, 500, "Error interno del servidor", {})
                 /\ UNCHANGED <<sale_items, item_seq>>
    /\ UNCHANGED <<products, aside, sales, sale_seq, auth, request, reads, locals, before, resp>>

\* "Si falla un item, revertir la venta": sales.delete().eq('id', sale_id)
RevertItem(r) ==
    /\ pc[r] = "revert_item"
    /\ \E out \in DeleteOutcomes :
       /\ Logged(r, "delete_sale", 0, out)
       /\ IF out = "ok"
          THEN /\ sales' = sales \ delete_sale_rows(r)
               /\ Respond(r, 400, "Error creando item", {})
          ELSE /\ Respond(r, 500, "Error interno del servidor", {})
               /\ UNCHANGED sales
    /\ UNCHANGED <<products, aside, sale_items, sale_seq, item_seq, auth, request, reads,
                   locals, before, resp>>

\* products.update({'stock': new_stock}).eq('id', product['id'])
UpdateStock(r) ==
    /\ pc[r] = "update_stock"
    /\ LET item_info == items_to_process[r][idx[r]]
           product == item_info.product
       IN \E out \in Outcomes :
          /\ Logged(r, "update_stock", idx[r], out)
          /\ CASE out = "ok" /\ product.id \in DOMAIN products ->
                    /\ products' = [products EXCEPT ![product.id].stock =
                                        new_stock(product, item_info.item_data)]
                    /\ IF idx[r] = Len(items_to_process[r])
                       THEN /\ pc' = [pc EXCEPT ![r] = "done"]
                            /\ result' = [result EXCEPT ![r].status = 200]
                            /\ idx' = idx
                       ELSE /\ pc' = [pc EXCEPT ![r] = "insert_item"]
                            /\ idx' = [idx EXCEPT ![r] = @ + 1]
                            /\ UNCHANGED result
               [] out = "raise" ->
                    /\ Respond(r, 500, "Error interno del servidor", {})
                    /\ UNCHANGED <<products, idx>>
               [] OTHER ->
                    /\ pc' = [pc EXCEPT ![r] = "revert_stock_sale"]
                    /\ UNCHANGED <<products, idx, result>>
    /\ UNCHANGED <<aside, sales, sale_items, sale_seq, item_seq, auth, request, reads, total,
                   items_to_process, sale_id, before, resp>>

\* "Revertir la venta si falla la actualizacion de stock", first delete:
\* sales.delete().eq('id', sale_id)
RevertStockSale(r) ==
    /\ pc[r] = "revert_stock_sale"
    /\ \E out \in DeleteOutcomes :
       /\ Logged(r, "delete_sale", 0, out)
       /\ IF out = "ok"
          THEN /\ sales' = sales \ delete_sale_rows(r)
               /\ pc' = [pc EXCEPT ![r] = "revert_stock_items"]
               /\ UNCHANGED result
          ELSE /\ Respond(r, 500, "Error interno del servidor", {})
               /\ UNCHANGED sales
    /\ UNCHANGED <<products, aside, sale_items, sale_seq, item_seq, auth, request, reads,
                   locals, before, resp>>

\* second delete: sale_items.delete().eq('sale_id', sale_id)
RevertStockItems(r) ==
    /\ pc[r] = "revert_stock_items"
    /\ \E out \in DeleteOutcomes :
       /\ Logged(r, "delete_items", 0, out)
       /\ IF out = "ok"
          THEN /\ sale_items' = sale_items \ delete_item_rows(r)
               /\ Respond(r, 400, "Error actualizando stock", {})
          ELSE /\ Respond(r, 500, "Error interno del servidor", {})
               /\ UNCHANGED sale_items
    /\ UNCHANGED <<products, aside, sales, sale_seq, item_seq, auth, request, reads,
                   locals, before, resp>>

create_sale(r) ==
    \/ Enter(r)
    \/ Validate(r)
    \/ InsertSale(r)
    \/ InsertItem(r)
    \/ RevertItem(r)
    \/ UpdateStock(r)
    \/ RevertStockSale(r)
    \/ RevertStockItems(r)

\* ------------------------------------------------------------ get_sales
\* supabase.table('sales').select('*, sale_items(*, products(*)), customers(*)')
\*     .eq('user_id', user.id): only the sales are filtered by owner, the
\* nested rows are the ones the foreign keys point to
get_sales_rows(u) ==
    {[sale |-> s,
      sale_items |-> {[item |-> it,
                       products |-> {products[p] : p \in DOMAIN products \cap {it.product_id}}] :
                          it \in {x \in sale_items : x.sale_id = s.id}},
      customers |-> {customers[c] : c \in DOMAIN customers \cap {s.customer_id}}] :
        s \in {x \in sales : x.user_id = u}}

\* the response of an endpoint that is handled in one step: the endpoint, the
\* header it came with, the user, the status, the rows of the body and the
\* number of store calls the handler issued
Reply(endpoint, auth_header, user, status, rows, calls) ==
    resp' = [endpoint |-> endpoint, headers |-> auth_header, user |-> user,
             status |-> status, rows |-> rows, calls |-> calls]
\* no create_sale is running: the specifications without concurrency handle
\* one request after the other
Quiet == \A r \in Req : pc[r] \in {"idle", "start", "done"}

\* GET /api/sales
get_sales(auth_header) ==
    /\ Quiet
    /\ LET user == check_auth(auth_header) IN
       IF user = NULL
       THEN Reply("get_sales", auth_header, NULL, 401, {}, 0)
       ELSE \E out \in ReadOutcomes :
            IF out = "raise"
            THEN Reply("get_sales", auth_header, user, 500, {}, 1)
            ELSE Reply("get_sales", auth_header, user, 200, get_sales_rows(user), 1)
    /\ UNCHANGED <<store, pc, auth, request, reads, locals, result, log, before>>

\* ------------------------------------------------------- JSON numbers
\* The value of a numeric field of a product body: the JSON number k/2
\* (Num(k)), the JSON string that spells k/2 (Str(k)), or a string that spells
\* no number (Text).  Prices are whole numbers throughout the model.
Num(k) == [json |-> "number", halves |-> k]
Str(k) == [json |-> "string", halves |-> k]
Text == [json |-> "text", halves |-> 0]
\* not data.get(k), for a numeric field: no such key, or the number 0
FalsyJson(d, k) == k \notin DOMAIN d \/ (d[k].json = "number" /\ d[k].halves = 0)
\* float(v): the number, or a ValueError
float_raises(v) == v.json = "text"
float(v) == v.halves \div 2
\* int(v): a number truncated towards zero, the integer a string spells, or a
\* ValueError
int_raises(v) == v.json = "text" \/ (v.json = "string" /\ v.halves % 2 # 0)
int(v) == IF v.halves >= 0 THEN v.halves \div 2 ELSE -((-v.halves) \div 2)

\* ------------------------------------------------------------- products
NewProductIds == <<"p4", "p5", "p6">>

\* (mutant) the flag is raised only below the alert level
low_stock_below(product) ==
    product.stock < Get(product, "low_stock_alert", DefaultLowStockAlert)

\* product['low_stock'] = product['stock'] <= product.get('low_stock_alert', 5)
low_stock(product) ==
    product.stock <= Get(product, "low_stock_alert", DefaultLowStockAlert)

\* supabase.table('products').select('*').eq('user_id', user.id), and the
\* low_stock field added to every row
get_products_rows(user) ==
    {products[p] @@ [low_stock |-> low_stock(products[p])] :
        p \in {q \in DOMAIN products : products[q].user_id = user}}

\* GET /api/products
get_products(auth_header) ==
    /\ Quiet
    /\ LET user == check_auth(auth_header) IN
       IF user = NULL
       THEN Reply("get_products", auth_header, NULL, 401, {}, 0)
       ELSE \E out \in ReadOutcomes :
            IF out = "raise"
            THEN Reply("get_products", auth_header, user, 500, {}, 1)
            ELSE Reply("get_products", auth_header, user, 200, get_products_rows(user), 1)
    /\ UNCHANGED <<store, pc, auth, request, reads, locals, result, log, before>>

\* product_data = {'name': ..., 'price': float(...), 'stock': int(...), ...}
product_data_raises(body) ==
    \/ float_raises(body.price)
    \/ "stock" \in DOMAIN body /\ int_raises(body.stock)
    \/ "low_stock_alert" \in DOMAIN body /\ int_raises(body.low_stock_alert)
product_data(body, user) ==
    [name |-> body.name,
     price |-> float(body.price),
     stock |-> IF "stock" \in DOMAIN body THEN int(body.stock) ELSE 0,
     category |-> Get(body, "category", ""),
     low_stock_alert |-> IF "low_stock_alert" \in DOMAIN body
                         THEN int(body.low_stock_alert) ELSE DefaultLowStockAlert,
     user_id |-> user]

\* POST /api/products
create_product(auth_header, body) ==
    /\ Quiet
    /\ product_seq < MaxNewRows
    /\ LET user == check_auth(auth_header) IN
       IF user = NULL
       THEN /\ Reply("create_product", auth_header, NULL, 401, {}, 0)
            /\ UNCHANGED <<products, product_seq>>
       ELSE IF FalsyStr(body, "name") \/ FalsyJson(body, "price")
       THEN /\ Reply("create_product", auth_header, user, 400, {}, 0)
            /\ UNCHANGED <<products, product_seq>>
       ELSE IF product_data_raises(body)
       THEN /\ Reply("create_product", auth_header, user, 500, {}, 0)
            /\ UNCHANGED <<products, product_seq>>
       ELSE \E out \in Outcomes :
            IF out = "ok"
            THEN LET row == [id |-> NewProductIds[product_seq + 1]]
                            @@ product_data(body, user) IN
                 /\ products' = (row.id :> row) @@ products
                 /\ product_seq' = product_seq + 1
                 /\ Reply("create_product", auth_header, user, 200, {row}, 1)
            ELSE /\ Reply("create_product", auth_header, user,
                          IF out = "empty" THEN 400 ELSE 500, {}, 1)
                 /\ UNCHANGED <<products, product_seq>>
    /\ UNCHANGED <<customers, customer_seq, report_data, sales, sale_items, sale_seq,
                   item_seq, pc, auth, request, reads, locals, result, log, before>>

\* supabase.table('products').select('*').eq('id', product_id).eq('user_id', user.id)
existing_product(product_id, user) ==
    {products[p] : p \in {q \in DOMAIN products :
                              q = product_id /\ products[q].user_id = user}}

\* update_data: the fields of the body the handler copies, price through
\* float() and stock and low_stock_alert through int()
UpdateFields == {"name", "price", "stock", "category", "low_stock_alert"}
update_data_raises(body) ==
    \/ "price" \in DOMAIN body /\ float_raises(body.price)
    \/ "stock" \in DOMAIN body /\ int_raises(body.stock)
    \/ "low_stock_alert" \in DOMAIN body /\ int_raises(body.low_stock_alert)
update_data(body) ==
    [k \in DOMAIN body \cap UpdateFields |->
        CASE k = "price" -> float(body[k])
          [] k \in {"stock", "low_stock_alert"} -> int(body[k])
          [] OTHER -> body[k]]

\* (mutant) a new price is also written to the sale items of the product
update_product_repricing(auth_header, product_id, body) ==
    /\ Quiet
    /\ check_auth(auth_header) # NULL
    /\ existing_product(product_id, check_auth(auth_header)) # {}
    /\ "price" \in DOMAIN body /\ ~update_data_raises(body)
    /\ products' = [products EXCEPT ![product_id] = update_data(body) @@ @]
    /\ sale_items' = {[it EXCEPT !.unit_price =
                          IF it.product_id = product_id THEN float(body.price) ELSE @] :
                      it \in sale_items}
    /\ Reply("update_product", auth_header, check_auth(auth_header), 200,
             {products'[product_id]}, 2)
    /\ UNCHANGED <<aside, sales, sale_seq, item_seq,
                   pc, auth, request, reads, locals, result, log, before>>

\* PUT /api/products/<product_id>
update_product(auth_header, product_id, body) ==
    /\ Quiet
    /\ LET user == check_auth(auth_header) IN
       IF user = NULL
       THEN /\ Reply("update_product", auth_header, NULL, 401, {}, 0)
            /\ UNCHANGED products
       ELSE \E read \in ReadOutcomes, out \in Outcomes :
            IF read = "raise" \/ existing_product(product_id, user) = {}
            THEN /\ Reply("update_product", auth_header, user,
                          IF read = "raise" THEN 500 ELSE 404, {}, 1)
                 /\ UNCHANGED products
            ELSE IF update_data_raises(body)
            THEN /\ Reply("update_product", auth_header, user, 500, {}, 1)
                 /\ UNCHANGED products
            ELSE IF out = "ok"
            THEN LET row == update_data(body) @@ products[product_id] IN
                 /\ products' = [products EXCEPT ![product_id] = row]
                 /\ Reply("update_product", auth_header, user, 200, {row}, 2)
            ELSE /\ Reply("update_product", auth_header, user,
                          IF out = "empty" THEN 400 ELSE 500, {}, 2)
                 /\ UNCHANGED products
    /\ UNCHANGED <<aside, sales, sale_items, sale_seq, item_seq,
                   pc, auth, request, reads, locals, result, log, before>>

\* DELETE /api/products/<product_id>
delete_product(auth_header, product_id) ==
    /\ Quiet
    /\ LET user == check_auth(auth_header) IN
       IF user = NULL
       THEN /\ Reply("delete_product", auth_header, NULL, 401, {}, 0)
            /\ UNCHANGED products
       ELSE \E read \in ReadOutcomes, out \in DeleteOutcomes :
            IF read = "raise" \/ existing_product(product_id, user) = {}
            THEN /\ Reply("delete_product", auth_header, user,
                          IF read = "raise" THEN 500 ELSE 404, {}, 1)
                 /\ UNCHANGED products
            ELSE IF out = "ok"
            THEN /\ products' = [p \in DOMAIN products \ {product_id} |-> products[p]]
                 /\ Reply("delete_product", auth_header, user, 200, {}, 2)
            ELSE /\ Reply("delete_product", auth_header, user, 500, {}, 2)
                 /\ UNCHANGED products
    /\ UNCHANGED <<aside, sales, sale_items, sale_seq, item_seq,
                   pc, auth, request, reads, locals, result, log, before>>

\* ------------------------------------------------------------ customers
NewCustomerIds == <<"c3", "c4", "c5">>

\* GET /api/customers
get_customers(auth_header) ==
    /\ Quiet
    /\ LET user == check_auth(auth_header) IN
       IF user = NULL
       THEN Reply("get_customers", auth_header, NULL, 401, {}, 0)
       ELSE \E out \in ReadOutcomes :
            IF out = "raise"
            THEN Reply("get_customers", auth_header, user, 500, {}, 1)
            ELSE Reply("get_customers", auth_header, user, 200,
                       {customers[c] : c \in {x \in DOMAIN customers :
                                                 customers[x].user_id = user}}, 1)
    /\ UNCHANGED <<store, pc, auth, request, reads, locals, result, log, before>>

\* customer_data = {'name': ..., 'email': ..., 'phone': ..., 'user_id': user.id}
customer_data(body, user) ==
    [name |-> body.name, email |-> Get(body, "email", ""),
     phone |-> Get(body, "phone", ""), user_id |-> user]

\* POST /api/customers
create_customer(auth_header, body) ==
    /\ Quiet
    /\ customer_seq < MaxNewRows
    /\ LET user == check_auth(auth_header) IN
       IF user = NULL
       THEN /\ Reply("create_customer", auth_header, NULL, 401, {}, 0)
            /\ UNCHANGED <<customers, customer_seq>>
       ELSE IF FalsyStr(body, "name")
       THEN /\ Reply("create_customer", auth_header, user, 400, {}, 0)
            /\ UNCHANGED <<customers, customer_seq>>
       ELSE \E out \in Outcomes :
            IF out = "ok"
            THEN LET row == [id |-> NewCustomerIds[customer_seq + 1]]
                            @@ customer_data(body, user) IN
                 /\ customers' = (row.id :> row) @@ customers
                 /\ customer_seq' = customer_seq + 1
                 /\ Reply("create_customer", auth_header, user, 200, {row}, 1)
            ELSE /\ Reply("create_customer", auth_header, user,
                          IF out = "empty" THEN 400 ELSE 500, {}, 1)
                 /\ UNCHANGED <<customers, customer_seq>>
    /\ UNCHANGED <<products, product_seq, report_data, sales, sale_items, sale_seq,
                   item_seq, pc, auth, request, reads, locals, result, log, before>>

\* supabase.table('customers').select('*').eq('id', customer_id).eq('user_id', user.id)
existing_customer(customer_id, user) ==
    {customers[c] : c \in {x \in DOMAIN customers :
                              x = customer_id /\ customers[x].user_id = user}}

\* PUT /api/customers/<customer_id>
update_customer(auth_header, customer_id, body) ==
    /\ Quiet
    /\ LET user == check_auth(auth_header) IN
       IF user = NULL
       THEN /\ Reply("update_customer", auth_header, NULL, 401, {}, 0)
            /\ UNCHANGED customers
       ELSE \E read \in ReadOutcomes, out \in Outcomes :
            IF read = "raise" \/ existing_customer(customer_id, user) = {}
            THEN /\ Reply("update_customer", auth_header, user,
                          IF read = "raise" THEN 500 ELSE 404, {}, 1)
                 /\ UNCHANGED customers
            ELSE IF out = "ok"
            THEN LET row == [k \in DOMAIN body \cap {"name", "email", "phone"} |-> body[k]]
                            @@ customers[customer_id] IN
                 /\ customers' = [customers EXCEPT ![customer_id] = row]
                 /\ Reply("update_customer", auth_header, user, 200, {row}, 2)
            ELSE /\ Reply("update_customer", auth_header, user,
                          IF out = "empty" THEN 400 ELSE 500, {}, 2)
                 /\ UNCHANGED customers
    /\ UNCHANGED <<products, product_seq, customer_seq, report_data, sales, sale_items,
                   sale_seq, item_seq, pc, auth, request, reads, locals, result, log,
                   before>>

\* DELETE /api/customers/<customer_id>
delete_customer(auth_header, customer_id) ==
    /\ Quiet
    /\ LET user == check_auth(auth_header) IN
       IF user = NULL
       THEN /\ Reply("delete_customer", auth_header, NULL, 401, {}, 0)
            /\ UNCHANGED customers
       ELSE \E read \in ReadOutcomes, out \in DeleteOutcomes :
            IF read = "raise" \/ existing_customer(customer_id, user) = {}
            THEN /\ Reply("delete_customer", auth_header, user,
                          IF read = "raise" THEN 500 ELSE 404, {}, 1)
                 /\ UNCHANGED customers
            ELSE IF out = "ok"
            THEN /\ customers' = [c \in DOMAIN customers \ {customer_id} |-> customers[c]]
                 /\ Reply("delete_customer", auth_header, user, 200, {}, 2)
            ELSE /\ Reply("delete_customer", auth_header, user, 500, {}, 2)
                 /\ UNCHANGED customers
    /\ UNCHANGED <<products, product_seq, customer_seq, report_data, sales, sale_items,
                   sale_seq, item_seq, pc, auth, request, reads, locals, result, log,
                   before>>

\* ------------------------------------------------- daily_sales, backup
\* GET /api/reports/daily-sales: select('*, sale_items(*)').eq('user_id', user.id)
\* between the first and the last second of the day; every sale of the model is
\* a sale of that day
daily_sales(auth_header) ==
    /\ Quiet
    /\ LET user == check_auth(auth_header) IN
       IF user = NULL
       THEN Reply("daily_sales", auth_header, NULL, 401, {}, 0)
       ELSE \E out \in ReadOutcomes :
            IF out = "raise"
            THEN Reply("daily_sales", auth_header, user, 500, {}, 1)
            ELSE Reply("daily_sales", auth_header, user, 200,
                       {[sale |-> s,
                         sale_items |-> {it \in sale_items : it.sale_id = s.id}] :
                           s \in {x \in sales : x.user_id = user}}, 1)
    /\ UNCHANGED <<store, pc, auth, request, reads, locals, result, log, before>>

\* GET /api/backup: one select for each of products, customers and sales; the
\* n-th select may raise
backup_data(auth_header) ==
    /\ Quiet
    /\ LET user == check_auth(auth_header) IN
       IF user = NULL
       THEN Reply("backup_data", auth_header, NULL, 401, {}, 0)
       ELSE \/ \E n \in 1..3 : Reply("backup_data", auth_header, user, 500, {}, n)
            \/ Reply("backup_data", auth_header, user, 200,
                     {[products |-> {products[p] : p \in {x \in DOMAIN products :
                                                        products[x].user_id = user}},
                       customers |-> {customers[c] : c \in {x \in DOMAIN customers :
                                                        customers[x].user_id = user}},
                       sales |-> {s \in sales : s.user_id = user}]}, 3)
    /\ UNCHANGED <<store, pc, auth, request, reads, locals, result, log, before>>

\* ---------------------------------------------------------- top_products
TopLimit == 10                \* top_products_list[:10]

\* item['products']['name'] if item['products'] else 'Producto desconocido';
\* the embedded product is a set with one row, or no row
product_name(item) ==
    IF item.products = {} THEN "Producto desconocido"
    ELSE (CHOOSE p \in item.products : TRUE).name

RECURSIVE product_sales(_)
\* the dict product_sales after the loop over response.data, as the list of its
\* entries in insertion order
product_sales(rows) ==
    IF rows = << >> THEN << >>
    ELSE LET acc == product_sales(SubSeq(rows, 1, Len(rows) - 1))
             item == rows[Len(rows)]
             name == product_name(item)
         IN IF \E k \in DOMAIN acc : acc[k].name = name
            THEN LET k == CHOOSE j \in DOMAIN acc : acc[j].name = name IN
                 [acc EXCEPT ![k].quantity = @ + item.quantity,
                             ![k].revenue = @ + item.quantity * item.unit_price]
            ELSE Append(acc, [name |-> name, quantity |-> item.quantity,
                              revenue |-> item.quantity * item.unit_price])

\* (mutant) the list is returned in the order of the dict
sort_skipped(list) == list

RECURSIVE sort_by_quantity(_)
\* list.sort(key=lambda x: x['quantity'], reverse=True): a stable sort, entries
\* of equal quantity keep their order
sort_by_quantity(list) ==
    IF list = << >> THEN << >>
    ELSE LET sorted == sort_by_quantity(SubSeq(list, 1, Len(list) - 1))
             x == list[Len(list)]
             k == Cardinality({j \in DOMAIN sorted : sorted[j].quantity >= x.quantity})
         IN SubSeq(sorted, 1, k) \o <<x>> \o SubSeq(sorted, k + 1, Len(sorted))

\* top_products_list, sorted, and its first ten entries
top_products_list(rows) ==
    LET sorted == sort_by_quantity(product_sales(rows)) IN
    SubSeq(sorted, 1, IF Len(sorted) < TopLimit THEN Len(sorted) ELSE TopLimit)

\* GET /api/reports/top-products; response.data is what the store answers to
\* the select of sale_items with the embedded product name
top_products(auth_header) ==
    /\ Quiet
    /\ LET user == check_auth(auth_header) IN
       IF user = NULL
       THEN Reply("top_products", auth_header, NULL, 401, {}, 0)
       ELSE \E out \in ReadOutcomes :
            IF out = "raise"
            THEN Reply("top_products", auth_header, user, 500, {}, 1)
            ELSE resp' = [endpoint |-> "top_products", headers |-> auth_header,
                          user |-> user, status |-> 200, calls |-> 1,
                          fetched |-> report_data,
                          rows |-> top_products_list(report_data)]
    /\ UNCHANGED <<store, pc, auth, request, reads, locals, result, log, before>>

Done(r) == pc[r] = "done"

\* ------------------------------------------------------------- requests
\* items of the sequential specification: every valid shape, and one item for
\* each way an item can be wrong
GoodItems ==
    [product_id : {"p1", "p2"}, quantity : 1..MaxQty]
    \cup [product_id : {"p1", "p2"}, quantity : 1..MaxQty, unit_price : {5}]
OddItems ==
    { [quantity |-> 1],                          \* no product_id
      [product_id |-> "p1"],                     \* no quantity
      [product_id |-> "p1", quantity |-> 0],
      [product_id |-> "p1", quantity |-> -1],
      [product_id |-> "p3", quantity |-> 1],     \* a product of u2
      [product_id |-> "p9", quantity |-> 1] }    \* no such product
SaleBodies ==
    LET lists == ItemsUpTo(GoodItems \cup OddItems, MaxItems) IN
    {[items |-> l] : l \in lists}
    \cup {[items |-> l, total |-> 99] : l \in lists}
    \cup {[total |-> 99]}
\* bodies that name a customer, sent by either user
CustomerBodies ==
    {[items |-> <<[product_id |-> p, quantity |-> 1]>>, customer_id |-> c] :
        p \in {"p1", "p3"}, c \in {"c1", "c2", ""}}
\* <<Authorization header, body>>
Requests ==
    ({Header("Bearer ", "tok-u1")} \X SaleBodies)
    \cup (GoodHeaders \X CustomerBodies)
    \cup ((Headers \ GoodHeaders) \X {[items |-> <<[product_id |-> "p1", quantity |-> 1]>>]})
\* items and requests of the concurrent specification: handler 1 sends up to
\* MaxConcItems items, handler 2 a one-item sale
ConcItems == [product_id : {"p1", "p2"}, quantity : {-1} \cup 1..MaxQty]
ConcRequests ==
    {[items |-> l] : l \in ItemsUpTo(ConcItems, MaxConcItems) \ {<< >>}}
ConcRequestsOne ==
    {[items |-> <<it>>] : it \in ConcItems}

\* ----------------------------------------------------------------- Init
\* the tables, with stock[p] units of product p
InitTables(stock) ==
    /\ products = [p \in {"p1", "p2", "p3"} |->
          [id |-> p,
           name |-> CASE p = "p1" -> "A" [] p = "p2" -> "B" [] OTHER -> "C",
           category |-> "",
           user_id |-> IF p = "p3" THEN "u2" ELSE "u1",
           stock |-> stock[p],
           low_stock_alert |-> DefaultLowStockAlert,
           price |-> CASE p = "p1" -> 2 [] p = "p2" -> 3 [] OTHER -> 4]]
    /\ customers = [c \in {"c1", "c2"} |->
          [id |-> c, name |-> "N", email |-> "", phone |-> "",
           user_id |-> IF c = "c1" THEN "u1" ELSE "u2"]]
    /\ product_seq = 0
    /\ customer_seq = 0
    /\ sales = {}
    /\ sale_items = {}
    /\ sale_seq = 0
    /\ item_seq = 0

\* the store with stock[p] units of product p and no sale item to report
InitStoreWith(stock) ==
    /\ InitTables(stock)
    /\ report_data = << >>
InitStock == [p \in {"p1", "p2", "p3"} |-> IF p = "p1" THEN MaxStock ELSE 1]
InitStore == InitStoreWith(InitStock)

InitLocals ==
    /\ idx = [r \in Req |-> 0]
    /\ total = [r \in Req |-> 0]
    /\ items_to_process = [r \in Req |-> << >>]
    /\ sale_id = [r \in Req |-> 0]
    /\ result = [r \in Req |-> [status |-> 0, error |-> "", sale |-> {}]]
    /\ log = [r \in Req |-> << >>]
    /\ before = [r \in Req |-> [products |-> << >>, sales |-> {}, sale_items |-> {}]]
    /\ auth = [r \in Req |-> NULL]
    /\ reads = [r \in Req |-> 0]
    /\ resp = [endpoint |-> "", headers |-> NoHeader, user |-> NULL, status |-> 0,
               rows |-> {}, calls |-> 0]

\* one request, handled by handler 1
Init ==
    /\ InitStore
    /\ InitLocals
    /\ pc = [r \in Req |-> IF r = 1 THEN "start" ELSE "idle"]
    /\ \E q \in Requests :
          /\ headers = [r \in Req |-> IF r = 1 THEN q[1] ELSE NoHeader]
          /\ data = [r \in Req |-> IF r = 1 THEN q[2] ELSE << >>]

\* two requests in flight at once
InitConc ==
    /\ InitStore
    /\ InitLocals
    /\ pc = [r \in Req |-> "start"]
    /\ headers = [r \in Req |-> Header("Bearer ", "tok-u1")]
    /\ \E q1 \in ConcRequests, q2 \in ConcRequestsOne :
          data = [r \in Req |-> IF r = 1 THEN q1 ELSE q2]

\* bodies of POST /api/products: prices 7 and -1, stocks -1 and 2.5, a price
\* and a stock given as strings, a price of 0, no name, and values that are
\* not numbers
CreateBodies ==
    { [name |-> "N", price |-> Num(14)],
      [name |-> "N", price |-> Num(14), stock |-> Num(-2)],
      [name |-> "N", price |-> Num(-2)],
      [name |-> "N", price |-> Str(14), stock |-> Num(5), low_stock_alert |-> Str(2)],
      [name |-> "N", price |-> Num(0)],
      [price |-> Num(14)],
      [name |-> "N", price |-> Text],
      [name |-> "N", price |-> Num(14), stock |-> Str(5)] }
\* bodies of PUT /api/products/<id>
UpdateBodies ==
    { [price |-> Num(14)],
      [price |-> Num(-2)],
      [stock |-> Num(-2)],
      [stock |-> Num(-1)],
      [stock |-> Text],
      [name |-> "Z", low_stock_alert |-> Str(2)] }
\* u1 maintaining the catalog, no sale
InitCatalog ==
    /\ InitStore
    /\ InitLocals
    /\ pc = [r \in Req |-> "idle"]
    /\ headers = [r \in Req |-> NoHeader]
    /\ data = [r \in Req |-> << >>]
NextCatalog ==
    \/ \E body \in CreateBodies : create_product(Header("Bearer ", "tok-u1"), body)
    \/ \E product_id \in {"p1", "p3"}, body \in UpdateBodies :
          update_product(Header("Bearer ", "tok-u1"), product_id, body)

\* one sale of u1, and u1 changing the catalog before and after it
RepriceSales ==
    {[items |-> l] :
        l \in ItemsUpTo([product_id : {"p1", "p2"}, quantity : {1}]
                          \cup [product_id : {"p1"}, quantity : {1}, unit_price : {5}],
                        MaxItems) \ {<< >>}}
RepriceBodies == {[price |-> Num(14)]}
InitReprice ==
    /\ InitStore
    /\ InitLocals
    /\ pc = [r \in Req |-> IF r = 1 THEN "start" ELSE "idle"]
    /\ headers = [r \in Req |-> IF r = 1 THEN Header("Bearer ", "tok-u1") ELSE NoHeader]
    /\ \E q \in RepriceSales : data = [r \in Req |-> IF r = 1 THEN q ELSE << >>]
NextReprice ==
    \/ create_sale(1)
    \/ \E body \in RepriceBodies :
          update_product(Header("Bearer ", "tok-u1"), "p1", body)

\* a product with stock 10 and low_stock_alert 5, one sale of it (of 5, of 6
\* or of a small quantity), a change of the alert level, and reads of the
\* catalog before and after
LowStockSales ==
    {[items |-> <<[product_id |-> "p1", quantity |-> q]>>] : q \in {5, 6} \cup 1..MaxQty}
InitLowStock ==
    /\ InitStoreWith([p \in {"p1", "p2", "p3"} |-> IF p = "p1" THEN 10 ELSE 1])
    /\ InitLocals
    /\ pc = [r \in Req |-> IF r = 1 THEN "start" ELSE "idle"]
    /\ headers = [r \in Req |-> IF r = 1 THEN Header("Bearer ", "tok-u1") ELSE NoHeader]
    /\ \E q \in LowStockSales : data = [r \in Req |-> IF r = 1 THEN q ELSE << >>]
NextLowStock ==
    \/ create_sale(1)
    \/ \E h \in GoodHeaders : get_products(h)
    \/ update_product(Header("Bearer ", "tok-u1"), "p1", [low_stock_alert |-> Num(8)])

\* answers of the report query: every short list of rows over two products and
\* a row whose product is gone, and long lists over TopLimit - 1 to
\* TopLimit + 1 further products, each sold once, followed by a short list
ReportNames == <<"N01", "N02", "N03", "N04", "N05", "N06", "N07", "N08", "N09",
                 "N10", "N11">>
ReportRows ==
    [quantity : 1..MaxQty, unit_price : {5, 10},
     products : {{[name |-> "A"]}, {[name |-> "B"]}, {}}]
ManyProducts(n) ==
    [i \in 1..n |-> [quantity |-> 1, unit_price |-> 5,
                     products |-> {[name |-> ReportNames[i]]}]]
Fetched ==
    ItemsUpTo(ReportRows, MaxRows)
    \cup {ManyProducts(n) \o l :
             n \in {TopLimit - 1, TopLimit, TopLimit + 1}, l \in ItemsUpTo(ReportRows, 1)}
InitTop ==
    /\ InitTables(InitStock)
    /\ report_data \in Fetched
    /\ InitLocals
    /\ pc = [r \in Req |-> "idle"]
    /\ headers = [r \in Req |-> NoHeader]
    /\ data = [r \in Req |-> << >>]
NextTop == \E h \in GoodHeaders : top_products(h)

\* every protected endpoint, called with every kind of Authorization header:
\* one sale and, before or after it, one request to one of the other
\* endpoints
InitAuth ==
    /\ InitStore
    /\ InitLocals
    /\ pc = [r \in Req |-> IF r = 1 THEN "start" ELSE "idle"]
    /\ \E h \in Headers : headers = [r \in Req |-> IF r = 1 THEN h ELSE NoHeader]
    /\ data = [r \in Req |-> IF r = 1
                              THEN [items |-> <<[product_id |-> "p1", quantity |-> 1]>>]
                              ELSE << >>]
\* no request to an endpoint other than create_sale has been answered yet
FirstRequest == resp.endpoint = ""
NextAuth ==
    \/ create_sale(1)
    \/ \E h \in Headers : FirstRequest /\ get_products(h)
    \/ \E h \in Headers : FirstRequest /\ create_product(h, [name |-> "N", price |-> Num(14)])
    \/ \E h \in Headers : FirstRequest /\ update_product(h, "p1", [price |-> Num(14)])
    \/ \E h \in Headers : FirstRequest /\ delete_product(h, "p1")
    \/ \E h \in Headers : FirstRequest /\ get_sales(h)
    \/ \E h \in Headers : FirstRequest /\ get_customers(h)
    \/ \E h \in Headers : FirstRequest /\ create_customer(h, [name |-> "M"])
    \/ \E h \in Headers : FirstRequest /\ update_customer(h, "c1", [name |-> "Z"])
    \/ \E h \in Headers : FirstRequest /\ delete_customer(h, "c1")
    \/ \E h \in Headers : FirstRequest /\ daily_sales(h)
    \/ \E h \in Headers : FirstRequest /\ backup_data(h)
    \/ \E h \in Headers : FirstRequest /\ top_products(h)

\* the same valid payload sent twice by u1, with stock for both sales
TwiceRequests ==
    {[items |-> l] :
        l \in ItemsUpTo([product_id : {"p1", "p2"}, quantity : 1..MaxQty], MaxItems) \ {<< >>}}
InitTwice ==
    /\ InitStoreWith([p \in {"p1", "p2", "p3"} |-> 2 * MaxItems * MaxQty])
    /\ InitLocals
    /\ pc = [r \in Req |-> "start"]
    /\ headers = [r \in Req |-> Header("Bearer ", "tok-u1")]
    /\ \E q \in TwiceRequests : data = [r \in Req |-> q]

Next ==
    \/ \E r \in Req : create_sale(r)
    \/ \E h \in GoodHeaders : get_sales(h)

NextConc == \E r \in Req : create_sale(r)

\* the second call comes in when the first has returned
NextTwice ==
    \/ create_sale(1)
    \/ Done(1) /\ create_sale(2)

\* sequential: one create_sale call, then reads
Spec == Init /\ [][Next]_vars
\* concurrent: two create_sale calls interleaved at their store calls
SpecConc == InitConc /\ [][NextConc]_vars
\* sequential: products created and updated
SpecCatalog == InitCatalog /\ [][NextCatalog]_vars
\* sequential: one create_sale call, prices changed before and after it
SpecReprice == InitReprice /\ [][NextReprice]_vars
\* sequential: one create_sale call, the catalog read before and after it
SpecLowStock == InitLowStock /\ [][NextLowStock]_vars
\* the report over every answer of its query
SpecTop == InitTop /\ [][NextTop]_vars
\* sequential: requests to every protected endpoint, with and without a
\* valid token
SpecAuth == InitAuth /\ [][NextAuth]_vars
\* sequential: the same create_sale request twice
SpecTwice == InitTwice /\ [][NextTwice]_vars

\* ================================================================ claims
Succeeded(r) == Done(r) /\ result[r].status = 200
Failed(r) == Done(r) /\ result[r].status # 200
Items(r) == Get(data[r], "items", << >>)
HeaderOf(r) == {s \in sales : s.id = sale_id[r]}
ItemRowsOf(r) == {it \in sale_items : it.sale_id = sale_id[r]}
\* a store write of handler r, of one of the kinds ops, that did not succeed
WriteFailed(r, ops, from) ==
    \E k \in DOMAIN log[r] :
        log[r][k].op \in ops /\ log[r][k].out # "ok" /\ log[r][k].i >= from

\* no store call of handler r raised: every failure was a write answered with
\* no row, and the handler's own revert branch ran
NoneRaised(r) == \A k \in DOMAIN log[r] : log[r][k].out # "raise"
\* every store write of handler r went through
AllSucceeded(r) == \A k \in DOMAIN log[r] : log[r][k].out = "ok"
\* every quantity of the request is strictly positive, as the spec requires of
\* an item (C9 is about the requests that break this)
PositiveQuantities(r) ==
    \A i \in DOMAIN Items(r) :
        "quantity" \in DOMAIN Items(r)[i] /\ Items(r)[i].quantity > 0

RECURSIVE SumOver(_, _, _)
\* sum of f[i] for i in from..to
SumOver(f, from, to) == IF from > to THEN 0 ELSE f[from] + SumOver(f, from + 1, to)

\* the effective unit price of a request item, from the catalog of the store
EffectivePrice(item) ==
    IF "unit_price" \in DOMAIN item THEN item.unit_price
    ELSE products[item.product_id].price
ExpectedTotal(items) ==
    SumOver([i \in DOMAIN items |-> EffectivePrice(items[i]) * items[i].quantity],
            1, Len(items))
\* quantity of product p sold by a list of items
QuantitySold(items, p) ==
    SumOver([i \in DOMAIN items |->
                IF items[i].product_id = p THEN items[i].quantity ELSE 0],
            1, Len(items))

\* C1: a successful create_sale persists, and returns, a Sale whose total is the
\* sum over the request's items of effective unit price x quantity, whatever
\* total the request body carries.  (Spec: catalog prices do not change.)
C1_TotalIsServerSum ==
    \A r \in Req : Succeeded(r) =>
        \E s \in sales :
            /\ s.id = sale_id[r]
            /\ s.total = ExpectedTotal(Items(r))
            /\ result[r].sale = {s}
\* a two-item sale, one item priced by the caller and one by the catalog, sent
\* with a client total that differs from the persisted one
C1_Witness ==
    \E r \in Req :
        /\ Succeeded(r)
        /\ Len(Items(r)) = 2
        /\ "unit_price" \in DOMAIN Items(r)[1]
        /\ "unit_price" \notin DOMAIN Items(r)[2]
        /\ "total" \in DOMAIN data[r]
        /\ \E s \in HeaderOf(r) : s.total # data[r].total /\ s.total = 5 + 3

\* C2: after a successful create_sale with nothing interleaved, the stock of
\* every product of the sale is its stock before the call minus the quantity of
\* it sold by the sale.
C2_StockDecremented ==
    \A r \in Req : (Succeeded(r) /\ PositiveQuantities(r)) =>
        \A i \in DOMAIN Items(r) :
            LET p == Items(r)[i].product_id IN
            products[p].stock = before[r].products[p].stock - QuantitySold(Items(r), p)

\* C3: under any interleaving of create_sale calls, successful or failed, no
\* product's stock is negative.
C3_StockNonNegative == \A p \in DOMAIN products : products[p].stock >= 0
\* both calls read the same stock of p1 before either wrote, both sold all of
\* it and both succeeded
C3_Witness ==
    /\ Succeeded(1) /\ Succeeded(2)
    /\ items_to_process[1][1].product.id = "p1"
    /\ items_to_process[1][1].product = items_to_process[2][1].product
    /\ Items(1)[1].quantity = items_to_process[1][1].product.stock
    /\ Items(2)[1].quantity = items_to_process[2][1].product.stock
    /\ products["p1"].stock = 0

\* C4: when create_sale returns an error after the header was inserted, because
\* an item insert or a stock update failed, neither the Sale header nor any
\* SaleItem row of that sale remains.  Stated for the calls in which the store
\* answered the failing write with no row and every delete went through, so
\* that what remains is what the handler's revert branch leaves (C10 is about
\* the calls in which a store call raises).
C4_NoPartialSale ==
    \A r \in Req :
        (/\ Failed(r) /\ sale_id[r] # 0
         /\ WriteFailed(r, {"insert_item", "update_stock"}, 1)
         /\ NoneRaised(r) /\ PositiveQuantities(r))
            => HeaderOf(r) = {} /\ ItemRowsOf(r) = {}

\* C5: when a SaleItem insert fails on an item after the first, the Sale header
\* of the request is gone once the error has been returned.
C5_HeaderGoneAfterLaterItemFails ==
    \A r \in Req :
        (Done(r) /\ WriteFailed(r, {"insert_item"}, 2) /\ PositiveQuantities(r))
            => HeaderOf(r) = {}

\* C6: a create_sale that returns an error leaves every product's stock as it
\* was before the call.  Stated for the calls in which no store call raised:
\* the error is one the handler itself answers after its revert branch.
C6_FailedSaleKeepsStock ==
    \A r \in Req : (Failed(r) /\ NoneRaised(r) /\ PositiveQuantities(r)) =>
        \A p \in DOMAIN products : products[p].stock = before[r].products[p].stock

\* what validation has to reject, read off the request and the store as it was
\* when the call came in: no items, an item without product_id or quantity, a
\* product that does not exist or belongs to someone else, too little stock
ItemLacksField(item) == "product_id" \notin DOMAIN item \/ "quantity" \notin DOMAIN item
UnknownProduct(r, item) ==
    \/ item.product_id \notin DOMAIN before[r].products
    \/ before[r].products[item.product_id].user_id # auth[r]
ShortOfStock(r, item) == before[r].products[item.product_id].stock < item.quantity
Defective(r) ==
    \/ Items(r) = << >>
    \/ \E i \in DOMAIN Items(r) :
          \/ ItemLacksField(Items(r)[i])
          \/ /\ ~ItemLacksField(Items(r)[i])
             /\ \/ UnknownProduct(r, Items(r)[i])
                \/ ~UnknownProduct(r, Items(r)[i]) /\ ShortOfStock(r, Items(r)[i])
RejectedInValidation(r) ==
    result[r].error \in {"La venta debe tener al menos un item",
                         "Cada item debe tener product_id y quantity",
                         "Producto no encontrado",
                         "Stock insuficiente"}

\* C7: a create_sale request that validation has to reject (and every request it
\* does reject) is answered with an error and writes nothing: the handler issued
\* no store write, and products, sales and sale_items are as before the call,
\* also when the bad item follows valid ones.
C7_RejectedWritesNothing ==
    \A r \in Req :
        (Done(r) /\ auth[r] # NULL /\ (Defective(r) \/ RejectedInValidation(r))) =>
            /\ result[r].status \in {400, 404, 500}
            /\ log[r] = << >>
            /\ Snapshot = before[r]
\* a two-item request whose first item is valid and whose second asks for more
\* than the stock, rejected for insufficient stock
C7_Witness ==
    \E r \in Req :
        /\ Done(r) /\ result[r].error = "Stock insuficiente"
        /\ Len(Items(r)) = 2
        /\ Len(items_to_process[r]) = 1
        /\ ShortOfStock(r, Items(r)[2])

\* C8: no request of a user returns, updates or deletes a row of another user:
\* every sale, sale item product and customer that get_sales returns belongs to
\* the caller, and create_sale changes only stock of the caller's products and
\* inserts only sales of the caller.  The reads are taken after calls in which
\* every store call succeeded, so that what is read was persisted by a
\* successful create_sale.
C8_OwnershipIsolation ==
    /\ (\A r \in Req : AllSucceeded(r)) => \A row \in resp.rows :
          /\ row.sale.user_id = resp.user
          /\ \A c \in row.customers : c.user_id = resp.user
          /\ \A x \in row.sale_items : \A p \in x.products : p.user_id = resp.user
    /\ \A r \in Req : Done(r) =>
          /\ \A p \in DOMAIN products :
                products[p] # before[r].products[p] => products[p].user_id = auth[r]
          /\ \A s \in sales \ before[r].sales : s.user_id = auth[r]

\* C9: every SaleItem row has a strictly positive quantity, and a request with
\* an item whose quantity is zero, negative or absent is rejected and writes
\* nothing (looked at in the calls whose store calls all succeeded).
C9_PositiveQuantities ==
    /\ \A it \in sale_items : it.quantity > 0
    /\ \A r \in Req :
          (/\ Done(r) /\ auth[r] # NULL /\ Items(r) # << >>
           /\ ~PositiveQuantities(r) /\ AllSucceeded(r)) =>
              result[r].status # 200 /\ log[r] = << >>

\* C10: when a store call after the header insert fails (answered with no row,
\* or raising), the Sale header of the request is no longer persisted when the
\* 400/500 response is returned.
C10_CompensatedBeforeError ==
    \A r \in Req :
        (/\ Done(r) /\ result[r].status \in {400, 500} /\ sale_id[r] # 0
         /\ WriteFailed(r, {"insert_item", "update_stock"}, 1)
         /\ PositiveQuantities(r))
            => HeaderOf(r) = {}

\* the handler's write log holds a successful call op for item i
WroteOk(r, op, i) ==
    \E k \in DOMAIN log[r] : log[r][k] = [op |-> op, i |-> i, out |-> "ok"]

\* C11: when create_sale returns success the response carries the Sale, and for
\* every item of the request a SaleItem row with the sale's id, the item's
\* product, quantity and effective unit price was inserted and a stock update
\* for the item was applied during the call; there is one row per item.
C11_SuccessPersistedEveryItem ==
    \A r \in Req : Succeeded(r) =>
        /\ result[r].sale # {}
        /\ \A s \in result[r].sale : s.id = sale_id[r]
        /\ Cardinality(ItemRowsOf(r)) = Len(Items(r))
        /\ \A i \in DOMAIN Items(r) :
              /\ WroteOk(r, "insert_item", i)
              /\ WroteOk(r, "update_stock", i)
              /\ \E it \in ItemRowsOf(r) :
                    /\ it.product_id = Items(r)[i].product_id
                    /\ it.quantity = Items(r)[i].quantity
                    /\ it.unit_price = EffectivePrice(Items(r)[i])
\* a successful sale of two different products, the first priced by the caller
C11_Witness ==
    \E r \in Req :
        /\ Succeeded(r)
        /\ Len(Items(r)) = 2
        /\ Items(r)[1].product_id # Items(r)[2].product_id
        /\ "unit_price" \in DOMAIN Items(r)[1]
        /\ Cardinality(ItemRowsOf(r)) = 2

\* C12: two concurrent create_sale calls can read the same stock of a product,
\* both pass the stock check, both write and both succeed; each stock write is
\* computed from the stock its own call checked, independently of the other
\* call, so every stock a product holds is its initial stock or the checked
\* stock minus the quantity of one item whose update went through.  (The
\* oversold outcome of the race is the witness.)
C12_IndependentStockWrites ==
    \A p \in DOMAIN products :
        \/ products[p].stock = InitStock[p]
        \/ \E r \in Req : \E i \in DOMAIN items_to_process[r] :
              /\ WroteOk(r, "update_stock", i)
              /\ items_to_process[r][i].product.id = p
              /\ products[p].stock = items_to_process[r][i].product.stock
                                        - items_to_process[r][i].item_data.quantity
\* both calls checked the same row of p1, both succeeded, and the two persisted
\* sales together sold more of p1 than the stock that was available; the stock
\* is what one of the two wrote
C12_Witness ==
    /\ Succeeded(1) /\ Succeeded(2)
    /\ PositiveQuantities(1) /\ PositiveQuantities(2)
    /\ Len(Items(1)) = 1
    /\ items_to_process[1][1].product.id = "p1"
    /\ items_to_process[1][1].product = items_to_process[2][1].product
    /\ HeaderOf(1) # {} /\ HeaderOf(2) # {} /\ sale_id[1] # sale_id[2]
    /\ \E it1 \in ItemRowsOf(1), it2 \in ItemRowsOf(2) :
          /\ it1.product_id = "p1" /\ it2.product_id = "p1"
          /\ it1.quantity + it2.quantity > items_to_process[1][1].product.stock
          /\ products["p1"].stock \in
                {items_to_process[1][1].product.stock - it1.quantity,
                 items_to_process[1][1].product.stock - it2.quantity}
          /\ products["p1"].stock >= 0

\* C13: the same valid payload sent twice in sequence, with stock for both,
\* gives two distinct Sale records, each with its own SaleItem rows, one per
\* item, and takes twice the quantity sold by the payload off the stock of
\* every product.
C13_ResubmittedSaleCountsTwice ==
    (Succeeded(1) /\ Succeeded(2) /\ data[1] = data[2]) =>
        /\ sale_id[1] # sale_id[2]
        /\ HeaderOf(1) # {} /\ HeaderOf(2) # {}
        /\ \A r \in Req : Cardinality(ItemRowsOf(r)) = Len(Items(r))
        /\ \A p \in DOMAIN products :
              products[p].stock =
                  before[1].products[p].stock - 2 * QuantitySold(Items(1), p)

\* C15: the unit_price of a SaleItem and the total of a Sale are fixed at sale
\* time: whatever update_product does to the catalog price afterwards, the Sale
\* row is the row the insert returned, with the total the call computed, and
\* every item has its SaleItem row with the effective unit price the call used.
C15_PriceSnapshot ==
    \A r \in Req : Succeeded(r) =>
        /\ HeaderOf(r) = result[r].sale
        /\ \A s \in HeaderOf(r) : s.total = total[r]
        /\ Cardinality(ItemRowsOf(r)) = Len(Items(r))
        /\ \A i \in DOMAIN Items(r) :
              \E it \in ItemRowsOf(r) :
                  /\ it.product_id = Items(r)[i].product_id
                  /\ it.quantity = Items(r)[i].quantity
                  /\ it.unit_price = items_to_process[r][i].unit_price
\* p1 was sold at its catalog price 2, then update_product set the price to 7:
\* the SaleItem row still says 2 and the Sale total is still 2
C15_Witness ==
    /\ Succeeded(1)
    /\ Len(Items(1)) = 1
    /\ Items(1)[1].product_id = "p1" /\ "unit_price" \notin DOMAIN Items(1)[1]
    /\ items_to_process[1][1].product.price = 2
    /\ resp.endpoint = "update_product" /\ resp.status = 200
    /\ products["p1"].price = 7
    /\ \E it \in ItemRowsOf(1) : it.unit_price = 2
    /\ \E s \in HeaderOf(1) : s.total = 2

\* C16: no product row persisted by create_product or update_product has a
\* negative stock or a negative price: the stored stock is a non-negative
\* integer and the stored price is non-negative, whatever the request body.
C16_NoNegativeStockOrPrice ==
    /\ \A p \in DOMAIN products : products[p].stock \in Nat /\ products[p].price >= 0
    /\ (resp.endpoint \in {"create_product", "update_product"} /\ resp.status = 200) =>
           \A row \in resp.rows : row.stock \in Nat /\ row.price >= 0

\* C17: every product get_products returns carries low_stock = (stock <=
\* low_stock_alert), computed from the row as it is in the store when the
\* catalog is read: each answer holds exactly the caller's products, each with
\* its current fields and that flag.  So stock 10 with alert 5 reads false,
\* and after a sale of 6 the next read reports stock 4 and low_stock true.
C17_LowStockAtReadTime ==
    [][(resp' # resp /\ resp'.endpoint = "get_products" /\ resp'.status = 200) =>
         /\ resp'.rows =
               {products[p] @@ [low_stock |->
                                   (products[p].stock <= products[p].low_stock_alert)] :
                  p \in {q \in DOMAIN products : products[q].user_id = resp'.user}}
         /\ \A row \in resp'.rows :
               /\ (row.stock = 10 /\ row.low_stock_alert = 5) => row.low_stock = FALSE
               /\ (row.stock = 4 /\ row.low_stock_alert = 5) => row.low_stock = TRUE]_vars
\* p1 had stock 10 and alert 5, a sale of 6 succeeded, and the read that
\* follows reports stock 4 and low_stock true
C17_Witness ==
    /\ Succeeded(1)
    /\ Items(1)[1].quantity = 6
    /\ before[1].products["p1"].stock = 10
    /\ before[1].products["p1"].low_stock_alert = 5
    /\ resp.endpoint = "get_products" /\ resp.status = 200 /\ resp.user = "u1"
    /\ \E row \in resp.rows :
          /\ row.id = "p1" /\ row.stock = 4 /\ row.low_stock_alert = 5
          /\ row.low_stock = TRUE

\* the name a fetched row is grouped under, and the totals of a name
RowName(row) ==
    IF row.products = {} THEN "Producto desconocido"
    ELSE (CHOOSE p \in row.products : TRUE).name
QuantityOf(rows, name) ==
    SumOver([i \in DOMAIN rows |-> IF RowName(rows[i]) = name THEN rows[i].quantity ELSE 0],
            1, Len(rows))
RevenueOf(rows, name) ==
    SumOver([i \in DOMAIN rows |->
                IF RowName(rows[i]) = name THEN rows[i].quantity * rows[i].unit_price ELSE 0],
            1, Len(rows))
\* C18: top_products groups the fetched rows by product name, sums quantity and
\* revenue (quantity x unit price) per name, and returns at most 10 entries in
\* non-increasing order of quantity: one entry per name, the names left out
\* (when there are more than 10) sold no more than any name returned; for
\* [(A,2,10), (B,1,5), (A,1,10)] the result is [A: 3, 30; B: 1, 5].
C18_TopProducts ==
    (resp.endpoint = "top_products" /\ resp.status = 200) =>
        LET rows == resp.fetched
            out == resp.rows
            names == {RowName(rows[i]) : i \in DOMAIN rows}
        IN /\ Len(out) <= 10
           /\ Len(out) = IF Cardinality(names) < 10 THEN Cardinality(names) ELSE 10
           /\ \A i, j \in DOMAIN out : i < j =>
                 out[i].name # out[j].name /\ out[i].quantity >= out[j].quantity
           /\ \A i \in DOMAIN out :
                 /\ out[i].name \in names
                 /\ out[i].quantity = QuantityOf(rows, out[i].name)
                 /\ out[i].revenue = RevenueOf(rows, out[i].name)
           /\ \A name \in names \ {out[i].name : i \in DOMAIN out} :
                 \A i \in DOMAIN out : QuantityOf(rows, name) <= out[i].quantity
           /\ rows = <<[quantity |-> 2, unit_price |-> 10, products |-> {[name |-> "A"]}],
                       [quantity |-> 1, unit_price |-> 5, products |-> {[name |-> "B"]}],
                       [quantity |-> 1, unit_price |-> 10, products |-> {[name |-> "A"]}]>>
                 => out = <<[name |-> "A", quantity |-> 3, revenue |-> 30],
                            [name |-> "B", quantity |-> 1, revenue |-> 5]>>
\* the report over [(B,1,5), (A,2,10), (A,1,10)]: A, first seen second, comes
\* first with quantity 3 and revenue 30
C18_Witness ==
    /\ resp.endpoint = "top_products" /\ resp.status = 200
    /\ resp.fetched = <<[quantity |-> 1, unit_price |-> 5, products |-> {[name |-> "B"]}],
                        [quantity |-> 2, unit_price |-> 10, products |-> {[name |-> "A"]}],
                        [quantity |-> 1, unit_price |-> 10, products |-> {[name |-> "A"]}]>>
    /\ resp.rows = <<[name |-> "A", quantity |-> 3, revenue |-> 30],
                     [name |-> "B", quantity |-> 1, revenue |-> 5]>>

\* a header the check has to reject: none, one that does not start with
\* 'Bearer ', or a token the identity service has no user for or fails on
Rejected(auth_header) ==
    \/ ~auth_header.present
    \/ auth_header.text = << >>
    \/ auth_header.text # << >> /\ auth_header.text[1] # "Bearer "
    \/ /\ auth_header.text # << >> /\ auth_header.text[1] = "Bearer "
       /\ \/ get_user(auth_header.text[2]).raised
          \/ get_user(auth_header.text[2]).user = NULL
\* C14: every protected endpoint checks authentication first: a request whose
\* Authorization header is missing, does not start with 'Bearer ', or carries
\* a token the identity service rejects or fails on, is answered 401 in a step
\* that issues no store call and leaves every table as it was; a create_sale
\* so rejected has issued no read and no write when it returns.
C14_UnauthorizedTouchesNothing ==
    /\ [](\A r \in Req : (Done(r) /\ Rejected(headers[r])) =>
             result[r].status = 401 /\ log[r] = << >> /\ reads[r] = 0)
    /\ [][/\ (resp' # resp /\ Rejected(resp'.headers)) =>
               resp'.status = 401 /\ resp'.calls = 0 /\ store' = store
           /\ \A r \in Req : (pc[r] = "start" /\ pc'[r] # "start" /\ Rejected(headers[r])) =>
                 Done(r)' /\ store' = store]_vars
\* a create_sale sent with a Basic header was answered 401, and a delete of p1
\* sent with a token the identity service failed on was answered 401 without
\* a store call: p1 is still there
C14_Witness ==
    /\ Done(1) /\ headers[1] = Header("Basic ", "tok-u1")
    /\ result[1].status = 401 /\ log[1] = << >> /\ reads[1] = 0
    /\ resp.endpoint = "delete_product"
    /\ resp.headers = Header("Bearer ", "outage")
    /\ resp.status = 401 /\ resp.calls = 0
    /\ "p1" \in DOMAIN products

\* C19: within one create_sale call the writes come in a fixed order.  The
\* header insert is the first write and the only header insert; when it fails
\* nothing else is issued; the n-th item insert is for the n-th item of the
\* request; every item insert follows the header insert (item 1) or the stock
\* update of the item before; a successful item insert is followed at once by
\* the stock update of the same item, and a stock update follows nothing else;
\* the rows of the sale, in the order of their ids, are the request's items.
C19_WriteOrder ==
    \A r \in Req :
        LET L == log[r] IN
        /\ \A k \in DOMAIN L : (L[k].op = "insert_sale") <=> (k = 1)
        /\ (L # << >> /\ L[1].out # "ok") => Len(L) = 1
        /\ \A k \in DOMAIN L : L[k].op = "insert_item" =>
              /\ L[k].i = Cardinality({j \in 1..k : L[j].op = "insert_item"})
              /\ L[k].i \in DOMAIN Items(r)
              /\ items_to_process[r][L[k].i].item_data = Items(r)[L[k].i]
              /\ L[k - 1].out = "ok"
              /\ IF L[k].i = 1 THEN L[k - 1].op = "insert_sale"
                 ELSE L[k - 1].op = "update_stock" /\ L[k - 1].i = L[k].i - 1
              /\ L[k].out = "ok" =>
                    IF k = Len(L) THEN pc[r] = "update_stock"
                    ELSE L[k + 1].op = "update_stock" /\ L[k + 1].i = L[k].i
        /\ \A k \in DOMAIN L : L[k].op = "update_stock" =>
              L[k - 1] = [op |-> "insert_item", i |-> L[k].i, out |-> "ok"]
        /\ \A it \in ItemRowsOf(r) :
              LET n == Cardinality({x \in ItemRowsOf(r) : x.id <= it.id}) IN
              /\ it.product_id = Items(r)[n].product_id
              /\ it.quantity = Items(r)[n].quantity
\* a sale of p2 and then p1 that went through: header, item 1, stock of item
\* 1, item 2, stock of item 2
C19_Witness ==
    \E r \in Req :
        /\ Succeeded(r)
        /\ Len(Items(r)) = 2
        /\ Items(r)[1].product_id = "p2" /\ Items(r)[2].product_id = "p1"
        /\ log[r] = <<[op |-> "insert_sale", i |-> 0, out |-> "ok"],
                      [op |-> "insert_item", i |-> 1, out |-> "ok"],
                      [op |-> "update_stock", i |-> 1, out |-> "ok"],
                      [op |-> "insert_item", i |-> 2, out |-> "ok"],
                      [op |-> "update_stock", i |-> 2, out |-> "ok"]>>

\* the call r has inserted its header: sale_id[r] is the id of its own sale
InsertedHeader(r) == log[r] # << >> /\ log[r][1].out = "ok"

\* C20: compensation is scoped to the failing call.  Two calls never hold the
\* same sale id; a Sale row leaves the table only in a compensating delete of
\* a call whose own sale id the row carries, a SaleItem row likewise, and no
\* such row carries the sale id of another call; the rows that stay are not
\* changed.
C20_CompensationScoped ==
    /\ [](\A r, q \in Req :
            (r # q /\ InsertedHeader(r) /\ InsertedHeader(q)) => sale_id[r] # sale_id[q])
    /\ [][/\ \A s \in sales \ sales' :
              \E r \in Req :
                 /\ pc[r] \in {"revert_item", "revert_stock_sale"}
                 /\ Len(log'[r]) = Len(log[r]) + 1
                 /\ InsertedHeader(r) /\ s.id = sale_id[r]
                 /\ \A q \in Req \ {r} : InsertedHeader(q) => s.id # sale_id[q]
          /\ \A it \in sale_items \ sale_items' :
              \E r \in Req :
                 /\ pc[r] = "revert_stock_items"
                 /\ Len(log'[r]) = Len(log[r]) + 1
                 /\ InsertedHeader(r) /\ it.sale_id = sale_id[r]
                 /\ \A q \in Req \ {r} : InsertedHeader(q) => it.sale_id # sale_id[q]
          /\ \A s \in sales' : s \in sales \/ s.id = sale_seq'
          /\ \A it \in sale_items' : it \in sale_items \/ it.id = item_seq'
         ]_vars
\* a call has deleted its header and its item rows after a failed stock
\* update while the header and an item row of the other call, inserted
\* before, are still there
C20_Witness ==
    \E r, q \in Req :
        /\ r # q
        /\ InsertedHeader(r) /\ InsertedHeader(q)
        /\ sale_id[q] < sale_id[r]
        /\ \E k \in DOMAIN log[r] : log[r][k] = [op |-> "delete_sale", i |-> 0, out |-> "ok"]
        /\ \E k \in DOMAIN log[r] : log[r][k] = [op |-> "delete_items", i |-> 0, out |-> "ok"]
        /\ ~ \E s \in sales : s.id = sale_id[r]
        /\ ItemRowsOf(r) = {}
        /\ \E s \in sales : s.id = sale_id[q]
        /\ ItemRowsOf(q) # {}

RECURSIVE QuantityInRows(_, _)
\* quantity of product p in a set of SaleItem rows
QuantityInRows(rows, p) ==
    IF rows = {} THEN 0
    ELSE LET it == CHOOSE x \in rows : TRUE IN
         (IF it.product_id = p THEN it.quantity ELSE 0) + QuantityInRows(rows \ {it}, p)
\* the request of handler r names every product at most once (C2 is about the
\* requests that name a product twice)
EachProductOnce(r) ==
    \A i, j \in DOMAIN Items(r) :
        Items(r)[i].product_id = Items(r)[j].product_id => i = j

\* C21: when the interleaved create_sale calls have all returned success, the
\* stock of every product is its initial stock minus the quantities of all the
\* persisted SaleItem rows of that product.  Looked at for requests with
\* positive quantities that name every product once, in which every store
\* call succeeded.
C21_StockConserved ==
    (\A r \in Req : /\ Succeeded(r) /\ AllSucceeded(r)
                    /\ PositiveQuantities(r) /\ EachProductOnce(r)) =>
        \A p \in DOMAIN products :
            products[p].stock = InitStock[p] - QuantityInRows(sale_items, p)

\* C22: in every reachable state the customer reference of each persisted Sale
\* is null or names a Customer that exists and belongs to the user of the Sale.
C22_CustomerOfSameUser ==
    \A s \in sales :
        \/ s.customer_id = NULL
        \/ /\ s.customer_id \in DOMAIN customers
           /\ customers[s.customer_id].user_id = s.user_id

=============================================================================
